---- MODULE Spec2Model ----
(***************************************************************************)
(* Model of aace::engine::alexa::EqualizerControllerEngineImpl, the bridge *)
(* between the platform equalizer (aace::alexa::EqualizerController), the  *)
(* AVS EqualizerController ("Manager") and the EqualizerCapabilityAgent.   *)
(*                                                                         *)
(* Two threads of control are modelled:                                    *)
(*   - the lifecycle thread (pc): create() / initialize() / shutdown() /   *)
(*     doShutdown(), one action per statement that touches a collaborator; *)
(*   - the platform thread (pending): a local event is first dispatched by *)
(*     the platform object to its engine interface, then the handler body  *)
(*     runs.                                                               *)
(* Callbacks made by the Manager (setEqualizerBandLevels, loadState,       *)
(* saveState, clear) are atomic actions.                                   *)
(***************************************************************************)
EXTENDS Integers, Sequences, FiniteSets

VARIABLES
    platformArg,      \* create() argument equalizerPlatformInterface: "null" | "valid"
    failStep,         \* which step of initialize() the environment makes fail
    cfgMin,           \* configured minimum band level (SDKConfigEqualizerConfiguration)
    cfgMax,           \* configured maximum band level
    cfgBands,         \* configured supported bands (AVS band values)
    pc,               \* position of the lifecycle thread
    result,           \* what create() returned: "pending" | "instance" | "null"
    constructed,      \* the EqualizerControllerEngineImpl object was constructed
    m_equalizerPlatformInterface,  \* "null" | "valid"
    m_configuration,               \* "null" | "live"
    m_equalizerController,         \* "null" | "live"
    m_equalizerCapabilityAgent,    \* "null" | "live"
    isShutdown,       \* RequiresShutdown::m_isShutdown
    shutdownCalls,    \* number of shutdown() calls made by the owner of the instance
    platTarget,       \* platform object's engine interface: "null" | "bridge"
    mgrHolders,       \* who holds a reference to the Manager
    mgrRegistered,    \* the bridge is registered with the Manager as equalizer
    log,              \* lifecycle calls made on the collaborators, in order
    pending,          \* local event dispatched to the bridge whose handler has not run yet
    out,              \* the handler that ran and has not returned: input, calls made,
                      \* result, and whether it dereferenced a null m_equalizerController
    crashed           \* the process died on a null dereference

vars == << platformArg, failStep, cfgMin, cfgMax, cfgBands, pc, result, constructed,
           m_equalizerPlatformInterface, m_configuration, m_equalizerController,
           m_equalizerCapabilityAgent, isShutdown, shutdownCalls, platTarget,
           mgrHolders, mgrRegistered, log, pending, out, crashed >>

configVars == << platformArg, failStep, cfgMin, cfgMax, cfgBands >>
memberVars == << m_equalizerPlatformInterface, m_configuration, m_equalizerController,
                 m_equalizerCapabilityAgent >>
handlerVars == << pending, out, crashed >>

(***************************************************************************)
(* Bounds of the model.                                                    *)
(***************************************************************************)
MaxLen == 2             \* longest list of band levels / bands handed to a handler
MaxLevel == 2           \* input levels range over -MaxLevel..MaxLevel
MaxShutdownCalls == 2   \* shutdown() calls made by the owner of the instance

Levels == (0 - MaxLevel)..MaxLevel

\* aace::alexa::EqualizerController::EqualizerBand
Bands == {"BASS", "MIDRANGE", "TREBLE"}
\* alexaClientSDK::acsdkEqualizerInterfaces::EqualizerBand
AvsBands == {"avs.BASS", "avs.MIDRANGE", "avs.TREBLE"}
\* position of an AVS band in its enumeration (the key order of the std::map)
AvsBandOrder == <<"avs.BASS", "avs.MIDRANGE", "avs.TREBLE">>

\* configurations the model is started with: a range with minLevel <= maxLevel
\* and the supported bands
Configurations ==
    { [min |-> -1, max |-> 1, bands |-> AvsBands],
      [min |-> 0, max |-> 0, bands |-> {"avs.BASS", "avs.TREBLE"}],
      [min |-> 0, max |-> 1, bands |-> {"avs.MIDRANGE"}] }

FailSteps == {"none", "registrar", "delegate", "configuration", "controller", "agent"}

SeqsUpTo(S, n) == UNION {[1..k -> S] : k \in 0..n}
\* std::vector<EqualizerBandLevel>
BandLevelSeqs == SeqsUpTo(Bands \X Levels, MaxLen)
\* std::vector<EqualizerBand>
BandSeqs == SeqsUpTo(Bands, MaxLen)
\* alexaClientSDK EqualizerBandLevelMap values pushed by the Manager
AvsBandLevelMaps == UNION {[S -> Levels] : S \in SUBSET AvsBands}

EmptyMap == [b \in {} |-> 0]
MapPut(m, k, v) == [x \in (DOMAIN m) \cup {k} |-> IF x = k THEN v ELSE m[x]]

NoOut == [op |-> "none", input |-> <<>>, calls |-> <<>>, result |-> <<>>, fault |-> FALSE]
NoPending == [op |-> "none", input |-> <<>>]

Call(target, method, arg) == [target |-> target, method |-> method, arg |-> arg]

(***************************************************************************)
(* Band model: conversions and clamping.                                   *)
(***************************************************************************)
convertBand(band) ==
    CASE band = "BASS" -> "avs.BASS"
      [] band = "MIDRANGE" -> "avs.MIDRANGE"
      [] band = "TREBLE" -> "avs.TREBLE"

convertBandBack(band) ==
    CASE band = "avs.BASS" -> "BASS"
      [] band = "avs.MIDRANGE" -> "MIDRANGE"
      [] band = "avs.TREBLE" -> "TREBLE"

getMinimumBandLevel == cfgMin

getMaximumBandLevel == cfgMax

Min2(a, b) == IF b < a THEN b ELSE a
Max2(a, b) == IF a < b THEN b ELSE a

\* mutant: only the upper bound is enforced
truncateBandLevel_UpperOnly(bandLevel) ==
    IF bandLevel[2] > getMaximumBandLevel THEN getMaximumBandLevel ELSE bandLevel[2]

\* mutant: the level is returned as it came
truncateBandLevel_NoClamp(bandLevel) == bandLevel[2]

truncateBandLevel(bandLevel) ==
    LET level == bandLevel[2]
        minLevel == getMinimumBandLevel
        maxLevel == getMaximumBandLevel
    IN  IF level > maxLevel \/ level < minLevel
        THEN Min2(Max2(level, minLevel), maxLevel)
        ELSE level

RECURSIVE convertAndTruncateLoop(_, _)
convertAndTruncateLoop(bandLevels, map) ==
    IF bandLevels = <<>> THEN map
    ELSE convertAndTruncateLoop(Tail(bandLevels),
             MapPut(map, convertBand(Head(bandLevels)[1]), truncateBandLevel(Head(bandLevels))))

\* vector of platform band levels -> AVS map, each level clamped
convertAndTruncateBandLevels(bandLevels) == convertAndTruncateLoop(bandLevels, EmptyMap)

RECURSIVE convertVectorLoop(_, _)
convertVectorLoop(bandLevels, map) ==
    IF bandLevels = <<>> THEN map
    ELSE convertVectorLoop(Tail(bandLevels),
             MapPut(map, convertBand(Head(bandLevels)[1]), Head(bandLevels)[2]))

\* vector of platform band levels -> AVS map, levels untouched
convertBandLevelsToMap(bandLevels) == convertVectorLoop(bandLevels, EmptyMap)

RECURSIVE convertMapLoop(_, _)
convertMapLoop(bandLevelMap, i) ==
    IF i > Len(AvsBandOrder) THEN <<>>
    ELSE (IF AvsBandOrder[i] \in DOMAIN bandLevelMap
          THEN << <<convertBandBack(AvsBandOrder[i]), bandLevelMap[AvsBandOrder[i]]>> >>
          ELSE <<>>) \o convertMapLoop(bandLevelMap, i + 1)

\* AVS map -> vector of platform band levels, in the map's key order
convertBandLevelsToVector(bandLevelMap) == convertMapLoop(bandLevelMap, 1)

RECURSIVE convertBandsLoop(_, _)
convertBandsLoop(bands, resetBands) ==
    IF bands = <<>> THEN resetBands
    ELSE convertBandsLoop(Tail(bands), resetBands \cup {convertBand(Head(bands))})

(***************************************************************************)
(* Initial state: the arguments of create() and the environment.           *)
(***************************************************************************)
Init ==
    /\ platformArg \in {"null", "valid"}
    /\ failStep \in FailSteps
    /\ \E c \in Configurations : cfgMin = c.min /\ cfgMax = c.max /\ cfgBands = c.bands
    /\ pc = "create"
    /\ result = "pending"
    /\ constructed = FALSE
    /\ m_equalizerPlatformInterface = "null"
    /\ m_configuration = "null"
    /\ m_equalizerController = "null"
    /\ m_equalizerCapabilityAgent = "null"
    /\ isShutdown = FALSE
    /\ shutdownCalls = 0
    /\ platTarget = "null"
    /\ mgrHolders = {}
    /\ mgrRegistered = FALSE
    /\ log = <<>>
    /\ pending = NoPending
    /\ out = NoOut
    /\ crashed = FALSE

(***************************************************************************)
(* create() and initialize(): the lifecycle thread.                        *)
(***************************************************************************)
\* mutant: create() constructs the bridge without checking the platform interface
Create_NoNullCheck ==
    /\ ~crashed
    /\ pc = "create"
    /\ constructed' = TRUE
    /\ m_equalizerPlatformInterface' = platformArg
    /\ pc' = "initialize"
    /\ UNCHANGED << configVars, result, m_configuration, m_equalizerController,
                    m_equalizerCapabilityAgent, isShutdown, shutdownCalls, platTarget,
                    mgrHolders, mgrRegistered, log, handlerVars >>

\* create(): ThrowIfNull(equalizerPlatformInterface), then the constructor
Create ==
    /\ ~crashed
    /\ pc = "create"
    /\ IF platformArg = "null"
       THEN /\ result' = "null"
            /\ pc' = "returned"
            /\ UNCHANGED << constructed, m_equalizerPlatformInterface >>
       ELSE /\ constructed' = TRUE
            /\ m_equalizerPlatformInterface' = platformArg
            /\ pc' = "initialize"
            /\ UNCHANGED result
    /\ UNCHANGED << configVars, m_configuration, m_equalizerController,
                    m_equalizerCapabilityAgent, isShutdown, shutdownCalls, platTarget,
                    mgrHolders, mgrRegistered, log, handlerVars >>

\* initialize(): ThrowIfNull(capabilitiesRegistrar), ThrowIfNull(capabilitiesDelegate)
Initialize_CheckArguments ==
    /\ ~crashed
    /\ pc = "initialize"
    /\ pc' = IF failStep \in {"registrar", "delegate"} THEN "create_catch"
             ELSE "initialize_configuration"
    /\ UNCHANGED << configVars, result, constructed, memberVars, isShutdown, shutdownCalls,
                    platTarget, mgrHolders, mgrRegistered, log, handlerVars >>

\* initialize(): SDKConfigEqualizerConfiguration::create, ThrowIfNull(m_configuration)
Initialize_Configuration ==
    /\ ~crashed
    /\ pc = "initialize_configuration"
    /\ log' = Append(log, "SDKConfigEqualizerConfiguration::create")
    /\ IF failStep = "configuration"
       THEN /\ pc' = "create_catch"
            /\ UNCHANGED m_configuration
       ELSE /\ m_configuration' = "live"
            /\ pc' = "initialize_controller"
    /\ UNCHANGED << configVars, result, constructed, m_equalizerPlatformInterface,
                    m_equalizerController, m_equalizerCapabilityAgent, isShutdown,
                    shutdownCalls, platTarget, mgrHolders, mgrRegistered, handlerVars >>

\* mutant: initialize() goes on when the Manager could not be created
Initialize_Controller_NoCheck ==
    /\ ~crashed
    /\ pc = "initialize_controller"
    /\ log' = Append(log, "EqualizerController::create")
    /\ IF failStep = "controller"
       THEN UNCHANGED << m_equalizerController, mgrHolders >>
       ELSE /\ m_equalizerController' = "live"
            /\ mgrHolders' = {"bridge"}
    /\ pc' = "initialize_agent"
    /\ UNCHANGED << configVars, result, constructed, m_equalizerPlatformInterface,
                    m_configuration, m_equalizerCapabilityAgent, isShutdown,
                    shutdownCalls, platTarget, mgrRegistered, handlerVars >>

\* initialize(): EqualizerController::create, ThrowIfNull(m_equalizerController)
Initialize_Controller ==
    /\ ~crashed
    /\ pc = "initialize_controller"
    /\ log' = Append(log, "EqualizerController::create")
    /\ IF failStep = "controller"
       THEN /\ pc' = "create_catch"
            /\ UNCHANGED << m_equalizerController, mgrHolders >>
       ELSE /\ m_equalizerController' = "live"
            /\ mgrHolders' = {"bridge"}
            /\ pc' = "initialize_agent"
    /\ UNCHANGED << configVars, result, constructed, m_equalizerPlatformInterface,
                    m_configuration, m_equalizerCapabilityAgent, isShutdown,
                    shutdownCalls, platTarget, mgrRegistered, handlerVars >>

\* mutant: initialize() goes on when the capability agent could not be created
Initialize_CapabilityAgent_NoCheck ==
    /\ ~crashed
    /\ pc = "initialize_agent"
    /\ log' = Append(log, "EqualizerCapabilityAgent::create")
    /\ IF failStep = "agent"
       THEN UNCHANGED << m_equalizerCapabilityAgent, mgrHolders >>
       ELSE /\ m_equalizerCapabilityAgent' = "live"
            /\ mgrHolders' = mgrHolders \cup {"agent"}
    /\ pc' = "initialize_withCapability"
    /\ UNCHANGED << configVars, result, constructed, m_equalizerPlatformInterface,
                    m_configuration, m_equalizerController, isShutdown,
                    shutdownCalls, platTarget, mgrRegistered, handlerVars >>

\* initialize(): EqualizerCapabilityAgent::create, ThrowIfNull(m_equalizerCapabilityAgent)
Initialize_CapabilityAgent ==
    /\ ~crashed
    /\ pc = "initialize_agent"
    /\ log' = Append(log, "EqualizerCapabilityAgent::create")
    /\ IF failStep = "agent"
       THEN /\ pc' = "create_catch"
            /\ UNCHANGED << m_equalizerCapabilityAgent, mgrHolders >>
       ELSE /\ m_equalizerCapabilityAgent' = "live"
            /\ mgrHolders' = mgrHolders \cup {"agent"}
            /\ pc' = "initialize_withCapability"
    /\ UNCHANGED << configVars, result, constructed, m_equalizerPlatformInterface,
                    m_configuration, m_equalizerController, isShutdown,
                    shutdownCalls, platTarget, mgrRegistered, handlerVars >>

\* initialize(): capabilitiesRegistrar->withCapability(agent, agent)
Initialize_WithCapability ==
    /\ ~crashed
    /\ pc = "initialize_withCapability"
    /\ log' = Append(log, "withCapability")
    /\ pc' = "initialize_registerEqualizer"
    /\ UNCHANGED << configVars, result, constructed, memberVars, isShutdown, shutdownCalls,
                    platTarget, mgrHolders, mgrRegistered, handlerVars >>

\* initialize(): m_equalizerController->registerEqualizer(shared_from_this()); return true
Initialize_RegisterEqualizer ==
    /\ ~crashed
    /\ pc = "initialize_registerEqualizer"
    /\ log' = Append(log, "registerEqualizer")
    /\ mgrRegistered' = TRUE
    /\ pc' = "create_setEngineInterface"
    /\ UNCHANGED << configVars, result, constructed, memberVars, isShutdown, shutdownCalls,
                    platTarget, mgrHolders, handlerVars >>

\* create(): equalizerPlatformInterface->setEngineInterface(impl); return impl
Create_SetEngineInterface ==
    /\ ~crashed
    /\ pc = "create_setEngineInterface"
    /\ log' = Append(log, "setEngineInterface(this)")
    /\ platTarget' = "bridge"
    /\ result' = "instance"
    /\ pc' = "idle"
    /\ UNCHANGED << configVars, constructed, memberVars, isShutdown, shutdownCalls,
                    mgrHolders, mgrRegistered, handlerVars >>

\* create(): catch block, equalizerEngineImpl != nullptr: equalizerEngineImpl->shutdown()
Create_Catch ==
    /\ ~crashed
    /\ pc = "create_catch"
    /\ pc' = "shutdown"
    /\ UNCHANGED << configVars, result, constructed, memberVars, isShutdown, shutdownCalls,
                    platTarget, mgrHolders, mgrRegistered, log, handlerVars >>

(***************************************************************************)
(* shutdown() and doShutdown().                                            *)
(***************************************************************************)
\* the owner of the instance that create() returned calls shutdown()
Shutdown_Call ==
    /\ ~crashed
    /\ pc = "idle"
    /\ shutdownCalls < MaxShutdownCalls
    /\ shutdownCalls' = shutdownCalls + 1
    /\ pc' = "shutdown"
    /\ UNCHANGED << configVars, result, constructed, memberVars, isShutdown,
                    platTarget, mgrHolders, mgrRegistered, log, handlerVars >>

\* where shutdown() returns to: create()'s catch block returns nullptr
ReturnFromShutdown ==
    /\ pc' = IF result = "pending" THEN "returned" ELSE "idle"
    /\ result' = IF result = "pending" THEN "null" ELSE result

\* mutant: shutdown() runs doShutdown() on every call
shutdownGuard_Never == FALSE

\* RequiresShutdown::shutdown(): the one-time guard
shutdownGuard == isShutdown

Shutdown_Enter ==
    /\ ~crashed
    /\ pc = "shutdown"
    /\ IF shutdownGuard
       THEN ReturnFromShutdown
       ELSE pc' = "doShutdown_platform" /\ UNCHANGED result
    /\ UNCHANGED << configVars, constructed, memberVars, isShutdown, shutdownCalls,
                    platTarget, mgrHolders, mgrRegistered, log, handlerVars >>

\* mutant: doShutdown() leaves the platform's engine interface set
DoShutdown_Platform_NoClear ==
    /\ ~crashed
    /\ pc = "doShutdown_platform"
    /\ pc' = "doShutdown_controller"
    /\ UNCHANGED << configVars, result, constructed, memberVars, isShutdown, shutdownCalls,
                    platTarget, mgrHolders, mgrRegistered, log, handlerVars >>

\* doShutdown(): m_equalizerPlatformInterface->setEngineInterface(nullptr)
DoShutdown_Platform ==
    /\ ~crashed
    /\ pc = "doShutdown_platform"
    /\ IF m_equalizerPlatformInterface # "null"
       THEN /\ log' = Append(log, "setEngineInterface(nullptr)")
            /\ platTarget' = "null"
       ELSE UNCHANGED << log, platTarget >>
    /\ pc' = "doShutdown_controller"
    /\ UNCHANGED << configVars, result, constructed, memberVars, isShutdown, shutdownCalls,
                    mgrHolders, mgrRegistered, handlerVars >>

\* mutant: doShutdown() unregisters without looking at m_equalizerController
DoShutdown_Controller_Unconditional ==
    /\ ~crashed
    /\ pc = "doShutdown_controller"
    /\ log' = Append(log, "unregisterEqualizer")
    /\ mgrRegistered' = FALSE
    /\ m_equalizerController' = "null"
    /\ mgrHolders' = mgrHolders \ {"bridge"}
    /\ pc' = "doShutdown_agent"
    /\ UNCHANGED << configVars, result, constructed, m_equalizerPlatformInterface,
                    m_configuration, m_equalizerCapabilityAgent, isShutdown, shutdownCalls,
                    platTarget, handlerVars >>

\* mutant: doShutdown() unregisters from the Manager but keeps its reference to it
DoShutdown_Controller_NoReset ==
    /\ ~crashed
    /\ pc = "doShutdown_controller"
    /\ IF m_equalizerController # "null"
       THEN /\ log' = Append(log, "unregisterEqualizer")
            /\ mgrRegistered' = FALSE
       ELSE UNCHANGED << log, mgrRegistered >>
    /\ pc' = "doShutdown_agent"
    /\ UNCHANGED << configVars, result, constructed, memberVars, isShutdown, shutdownCalls,
                    platTarget, mgrHolders, handlerVars >>

\* doShutdown(): unregisterEqualizer(shared_from_this()); m_equalizerController.reset()
DoShutdown_Controller ==
    /\ ~crashed
    /\ pc = "doShutdown_controller"
    /\ IF m_equalizerController # "null"
       THEN /\ log' = Append(log, "unregisterEqualizer")
            /\ mgrRegistered' = FALSE
            /\ m_equalizerController' = "null"
            /\ mgrHolders' = mgrHolders \ {"bridge"}
       ELSE UNCHANGED << log, mgrRegistered, m_equalizerController, mgrHolders >>
    /\ pc' = "doShutdown_agent"
    /\ UNCHANGED << configVars, result, constructed, m_equalizerPlatformInterface,
                    m_configuration, m_equalizerCapabilityAgent, isShutdown, shutdownCalls,
                    platTarget, handlerVars >>

\* mutant: doShutdown() does not shut the capability agent down
DoShutdown_CapabilityAgent_Skip ==
    /\ ~crashed
    /\ pc = "doShutdown_agent"
    /\ pc' = "shutdown_return"
    /\ UNCHANGED << configVars, result, constructed, memberVars, isShutdown, shutdownCalls,
                    platTarget, mgrHolders, mgrRegistered, log, handlerVars >>

\* doShutdown(): m_equalizerCapabilityAgent->shutdown()
DoShutdown_CapabilityAgent ==
    /\ ~crashed
    /\ pc = "doShutdown_agent"
    /\ IF m_equalizerCapabilityAgent # "null"
       THEN log' = Append(log, "EqualizerCapabilityAgent::shutdown")
       ELSE UNCHANGED log
    /\ pc' = "shutdown_return"
    /\ UNCHANGED << configVars, result, constructed, memberVars, isShutdown, shutdownCalls,
                    platTarget, mgrHolders, mgrRegistered, handlerVars >>

\* RequiresShutdown::shutdown(): doShutdown() returned, m_isShutdown = true
Shutdown_Return ==
    /\ ~crashed
    /\ pc = "shutdown_return"
    /\ isShutdown' = TRUE
    /\ ReturnFromShutdown
    /\ UNCHANGED << configVars, constructed, memberVars, shutdownCalls,
                    platTarget, mgrHolders, mgrRegistered, log, handlerVars >>

(***************************************************************************)
(* Local events: the platform object forwards localSetBandLevels,          *)
(* localAdjustBandLevels and localResetBands to its engine interface while *)
(* one is set; the handler body then runs on the platform's thread.        *)
(***************************************************************************)
\* one callback into the bridge is followed at a time: none is dispatched or running
NoHandlerRunning == pending.op = "none" /\ out.op = "none"

\* the platform object has an engine interface to forward a local event to
CanDispatch == ~crashed /\ platTarget = "bridge" /\ NoHandlerRunning

dispatchFrame == << configVars, pc, result, constructed, memberVars, isShutdown,
                    shutdownCalls, platTarget, mgrHolders, mgrRegistered, log, out,
                    crashed >>

localSetBandLevels ==
    /\ CanDispatch
    /\ \E bandLevels \in BandLevelSeqs :
          pending' = [op |-> "onLocalSetBandLevels", input |-> bandLevels]
    /\ UNCHANGED dispatchFrame

localAdjustBandLevels ==
    /\ CanDispatch
    /\ \E bandAdjustments \in BandLevelSeqs :
          pending' = [op |-> "onLocalAdjustBandLevels", input |-> bandAdjustments]
    /\ UNCHANGED dispatchFrame

localResetBands ==
    /\ CanDispatch
    /\ \E bands \in BandSeqs :
          pending' = [op |-> "onLocalResetBands", input |-> bands]
    /\ UNCHANGED dispatchFrame

\* A handler body calls m_equalizerController->method(arg).  On a null
\* m_equalizerController the call is a null dereference: the process dies, or
\* the call is lost.
CallController(method, arg) ==
    /\ pending' = NoPending
    /\ IF m_equalizerController # "null"
       THEN /\ out' = [op |-> pending.op, input |-> pending.input,
                       calls |-> << Call("EqualizerController", method, arg) >>,
                       result |-> <<>>, fault |-> FALSE]
            /\ UNCHANGED crashed
       ELSE /\ out' = [op |-> pending.op, input |-> pending.input, calls |-> <<>>,
                       result |-> <<>>, fault |-> TRUE]
            /\ crashed' \in BOOLEAN
    /\ UNCHANGED << configVars, pc, result, constructed, memberVars, isShutdown,
                    shutdownCalls, platTarget, mgrHolders, mgrRegistered, log >>

onLocalSetBandLevels ==
    /\ ~crashed
    /\ pending.op = "onLocalSetBandLevels"
    /\ CallController("setBandLevels", convertAndTruncateBandLevels(pending.input))

\* mutant: the adjust path clamps like the set path
onLocalAdjustBandLevels_Truncating ==
    /\ ~crashed
    /\ pending.op = "onLocalAdjustBandLevels"
    /\ CallController("adjustBandLevels", convertAndTruncateBandLevels(pending.input))

onLocalAdjustBandLevels ==
    /\ ~crashed
    /\ pending.op = "onLocalAdjustBandLevels"
    /\ CallController("adjustBandLevels", convertBandLevelsToMap(pending.input))

\* mutant: an empty request resets no band
resetBandsArgument_NoDefault(bands) == convertBandsLoop(bands, {})

\* the set of bands onLocalResetBands hands to resetBands
resetBandsArgument(bands) ==
    IF Len(bands) = 0 THEN cfgBands ELSE convertBandsLoop(bands, {})

onLocalResetBands ==
    /\ ~crashed
    /\ pending.op = "onLocalResetBands"
    /\ CallController("resetBands", resetBandsArgument(pending.input))

(***************************************************************************)
(* Callbacks made by the Manager.  They touch nothing a local handler      *)
(* reads or writes, so they are taken between local events only.  out      *)
(* holds the record of the handler that ran until that handler returns.    *)
(***************************************************************************)
\* mutant: the remote push path clamps the pushed levels
setEqualizerBandLevels_Truncating ==
    /\ ~crashed
    /\ mgrRegistered
    /\ NoHandlerRunning
    /\ \E bandLevels \in AvsBandLevelMaps :
          LET v == convertBandLevelsToVector(bandLevels)
          IN  out' = [op |-> "setEqualizerBandLevels", input |-> bandLevels,
                      calls |-> << Call("EqualizerPlatformInterface", "setBandLevels",
                                        [i \in DOMAIN v |-> <<v[i][1], truncateBandLevel(v[i])>>]) >>,
                      result |-> <<>>, fault |-> FALSE]
    /\ UNCHANGED << configVars, pc, result, constructed, memberVars, isShutdown,
                    shutdownCalls, platTarget, mgrHolders, mgrRegistered, log,
                    pending, crashed >>

\* EqualizerInterface: the Manager pushes levels to its registered equalizers
setEqualizerBandLevels ==
    /\ ~crashed
    /\ mgrRegistered
    /\ NoHandlerRunning
    /\ \E bandLevels \in AvsBandLevelMaps :
          out' = [op |-> "setEqualizerBandLevels", input |-> bandLevels,
                  calls |-> << Call("EqualizerPlatformInterface", "setBandLevels",
                                    convertBandLevelsToVector(bandLevels)) >>,
                  result |-> <<>>, fault |-> FALSE]
    /\ UNCHANGED << configVars, pc, result, constructed, memberVars, isShutdown,
                    shutdownCalls, platTarget, mgrHolders, mgrRegistered, log,
                    pending, crashed >>

\* mutant: loadState converts the platform's levels without clamping them
loadState_NoTruncate ==
    /\ ~crashed
    /\ mgrHolders # {}
    /\ NoHandlerRunning
    /\ \E bandLevels \in BandLevelSeqs :
          out' = [op |-> "loadState", input |-> bandLevels,
                  calls |-> << Call("EqualizerPlatformInterface", "getBandLevels", <<>>) >>,
                  result |-> [success |-> TRUE,
                              bandLevels |-> convertBandLevelsToMap(bandLevels),
                              mode |-> "NONE"],
                  fault |-> FALSE]
    /\ UNCHANGED << configVars, pc, result, constructed, memberVars, isShutdown,
                    shutdownCalls, platTarget, mgrHolders, mgrRegistered, log,
                    pending, crashed >>

\* EqualizerStorageInterface::loadState; the platform's getBandLevels() answers
\* with whatever levels the device currently has
loadState ==
    /\ ~crashed
    /\ mgrHolders # {}
    /\ NoHandlerRunning
    /\ \E bandLevels \in BandLevelSeqs :
          out' = [op |-> "loadState", input |-> bandLevels,
                  calls |-> << Call("EqualizerPlatformInterface", "getBandLevels", <<>>) >>,
                  result |-> [success |-> TRUE,
                              bandLevels |-> convertAndTruncateBandLevels(bandLevels),
                              mode |-> "NONE"],
                  fault |-> FALSE]
    /\ UNCHANGED << configVars, pc, result, constructed, memberVars, isShutdown,
                    shutdownCalls, platTarget, mgrHolders, mgrRegistered, log,
                    pending, crashed >>

\* mutant: saveState writes the saved levels through to the platform interface
saveState_WriteThrough ==
    /\ ~crashed
    /\ mgrHolders # {}
    /\ NoHandlerRunning
    /\ \E state \in AvsBandLevelMaps :
          out' = [op |-> "saveState", input |-> state,
                  calls |-> << Call("EqualizerPlatformInterface", "setBandLevels",
                                    convertBandLevelsToVector(state)) >>,
                  result |-> <<>>, fault |-> FALSE]
    /\ UNCHANGED << configVars, pc, result, constructed, memberVars, isShutdown,
                    shutdownCalls, platTarget, mgrHolders, mgrRegistered, log,
                    pending, crashed >>

\* EqualizerStorageInterface::saveState: no-op
saveState ==
    /\ ~crashed
    /\ mgrHolders # {}
    /\ NoHandlerRunning
    /\ \E state \in AvsBandLevelMaps :
          out' = [op |-> "saveState", input |-> state, calls |-> <<>>, result |-> <<>>,
                  fault |-> FALSE]
    /\ UNCHANGED << configVars, pc, result, constructed, memberVars, isShutdown,
                    shutdownCalls, platTarget, mgrHolders, mgrRegistered, log,
                    pending, crashed >>

\* EqualizerStorageInterface::clear: no-op
clear ==
    /\ ~crashed
    /\ mgrHolders # {}
    /\ NoHandlerRunning
    /\ out' = [op |-> "clear", input |-> <<>>, calls |-> <<>>, result |-> <<>>,
               fault |-> FALSE]
    /\ UNCHANGED << configVars, pc, result, constructed, memberVars, isShutdown,
                    shutdownCalls, platTarget, mgrHolders, mgrRegistered, log,
                    pending, crashed >>

\* the handler that ran returns to its caller
HandlerReturn ==
    /\ ~crashed
    /\ out.op # "none"
    /\ out' = NoOut
    /\ UNCHANGED << configVars, pc, result, constructed, memberVars, isShutdown,
                    shutdownCalls, platTarget, mgrHolders, mgrRegistered, log,
                    pending, crashed >>

Next ==
    \/ Create
    \/ Initialize_CheckArguments
    \/ Initialize_Configuration
    \/ Initialize_Controller
    \/ Initialize_CapabilityAgent
    \/ Initialize_WithCapability
    \/ Initialize_RegisterEqualizer
    \/ Create_SetEngineInterface
    \/ Create_Catch
    \/ Shutdown_Call
    \/ Shutdown_Enter
    \/ DoShutdown_Platform
    \/ DoShutdown_Controller
    \/ DoShutdown_CapabilityAgent
    \/ Shutdown_Return
    \/ localSetBandLevels
    \/ localAdjustBandLevels
    \/ localResetBands
    \/ onLocalSetBandLevels
    \/ onLocalAdjustBandLevels
    \/ onLocalResetBands
    \/ setEqualizerBandLevels
    \/ loadState
    \/ saveState
    \/ clear
    \/ HandlerReturn

Spec == Init /\ [][Next]_vars

(***************************************************************************)
(* Vocabulary of the properties.                                           *)
(***************************************************************************)
\* the AVS band a platform band stands for, and back
AvsBandOf == [b \in Bands |-> "avs." \o b]
PlatformBandOf(k) == CHOOSE b \in Bands : AvsBandOf[b] = k

\* the bands named in a list of band levels
InputBands(bandLevels) == {bandLevels[i][1] : i \in DOMAIN bandLevels}

\* the level of the last entry of the list that names band b
LastLevel(bandLevels, b) ==
    LET i == CHOOSE k \in DOMAIN bandLevels :
                 /\ bandLevels[k][1] = b
                 /\ \A j \in DOMAIN bandLevels : j > k => bandLevels[j][1] # b
    IN  bandLevels[i][2]

\* level clamped into the configured range
Clamped(level) ==
    IF level < cfgMin THEN cfgMin ELSE IF level > cfgMax THEN cfgMax ELSE level

InRange(level) == cfgMin <= level /\ level <= cfgMax

\* the handler that ran made exactly one call, this one
MadeOneCall(target, method) ==
    /\ Len(out.calls) = 1
    /\ out.calls[1].target = target
    /\ out.calls[1].method = method

\* C1: onLocalSetBandLevels on an Active bridge hands the Manager's setBandLevels
\* a map that holds, for each band of the input, the input level of that band
\* clamped into [minLevel, maxLevel] (the last entry of a band counts); no level
\* outside the range reaches the Manager's set operation.
C1_LocalSetIsClamped ==
    (out.op = "onLocalSetBandLevels" /\ ~out.fault) =>
        /\ MadeOneCall("EqualizerController", "setBandLevels")
        /\ LET map == out.calls[1].arg
           IN  /\ DOMAIN map = {AvsBandOf[b] : b \in InputBands(out.input)}
               /\ \A b \in InputBands(out.input) :
                     map[AvsBandOf[b]] = Clamped(LastLevel(out.input, b))
               /\ \A k \in DOMAIN map : InRange(map[k])

\* a level above the range and a level below it were set, and reached the Manager clamped
C1_Witness ==
    /\ out.op = "onLocalSetBandLevels"
    /\ ~out.fault
    /\ Len(out.input) = 2
    /\ out.input[1][1] # out.input[2][1]
    /\ out.input[1][2] > cfgMax
    /\ out.input[2][2] < cfgMin
    /\ out.calls[1].arg[AvsBandOf[out.input[1][1]]] = cfgMax
    /\ out.calls[1].arg[AvsBandOf[out.input[2][1]]] = cfgMin

\* C2: onLocalAdjustBandLevels on an Active bridge hands the Manager's
\* adjustBandLevels each band of the input with its delta numerically unchanged,
\* also when the delta lies outside [minLevel, maxLevel].
C2_LocalAdjustUnclamped ==
    (out.op = "onLocalAdjustBandLevels" /\ ~out.fault) =>
        /\ MadeOneCall("EqualizerController", "adjustBandLevels")
        /\ LET map == out.calls[1].arg
           IN  /\ DOMAIN map = {AvsBandOf[b] : b \in InputBands(out.input)}
               /\ \A b \in InputBands(out.input) :
                     map[AvsBandOf[b]] = LastLevel(out.input, b)

\* a delta outside the range was forwarded as it came
C2_Witness ==
    /\ out.op = "onLocalAdjustBandLevels"
    /\ ~out.fault
    /\ \E i \in DOMAIN out.input :
          /\ ~InRange(out.input[i][2])
          /\ out.calls[1].arg[AvsBandOf[out.input[i][1]]] = out.input[i][2]

\* C3: loadState returns success, Mode NONE, and the platform's current levels
\* each clamped into [minLevel, maxLevel]; no returned level is outside the range.
C3_LoadStateClamps ==
    out.op = "loadState" =>
        /\ out.result.success
        /\ out.result.mode = "NONE"
        /\ MadeOneCall("EqualizerPlatformInterface", "getBandLevels")
        /\ LET map == out.result.bandLevels
           IN  /\ DOMAIN map = {AvsBandOf[b] : b \in InputBands(out.input)}
               /\ \A b \in InputBands(out.input) :
                     map[AvsBandOf[b]] = Clamped(LastLevel(out.input, b))
               /\ \A k \in DOMAIN map : InRange(map[k])

\* the platform reported a level above the range and loadState returned maxLevel for it
C3_Witness ==
    /\ out.op = "loadState"
    /\ \E i \in DOMAIN out.input :
          /\ out.input[i][2] > cfgMax
          /\ out.result.bandLevels[AvsBandOf[out.input[i][1]]] = cfgMax

\* C4: onLocalResetBands with an empty input hands resetBands the configured
\* supported bands; with a non-empty input it hands it exactly the set of the
\* requested bands.
C4_ResetTarget ==
    (out.op = "onLocalResetBands" /\ ~out.fault) =>
        /\ MadeOneCall("EqualizerController", "resetBands")
        /\ out.calls[1].arg =
              IF out.input = <<>> THEN cfgBands
              ELSE {AvsBandOf[out.input[i]] : i \in DOMAIN out.input}

\* an empty reset request was turned into a reset of all supported bands
C4_Witness ==
    /\ out.op = "onLocalResetBands"
    /\ ~out.fault
    /\ out.input = <<>>
    /\ out.calls[1].arg = cfgBands
    /\ cfgBands # {}

\* positions of a call in the lifecycle log
Logged(call) == {i \in DOMAIN log : log[i] = call}

\* the calls of a successful create(), in order
CreateCalls ==
    << "SDKConfigEqualizerConfiguration::create", "EqualizerController::create",
       "EqualizerCapabilityAgent::create", "withCapability", "registerEqualizer",
       "setEngineInterface(this)" >>

\* the calls of doShutdown() on an Active bridge, in order
TeardownCalls ==
    << "setEngineInterface(nullptr)", "unregisterEqualizer",
       "EqualizerCapabilityAgent::shutdown" >>

\* create() has returned
Returned == pc = "returned" \/ result = "instance"

\* C5: teardown order.  The platform's engine interface is cleared before the
\* bridge is unregistered from the Manager, which happens before the capability
\* agent is shut down: the Manager is never unregistered while the platform's
\* engine interface is still the bridge, and the shutdown of an Active bridge
\* makes exactly these three calls, in this order.
C5_TeardownOrder ==
    /\ \A i \in DOMAIN log :
          /\ log[i] = "unregisterEqualizer" =>
                \E k \in 1..(i - 1) : log[k] = "setEngineInterface(nullptr)"
          /\ log[i] = "EqualizerCapabilityAgent::shutdown" =>
                \E k \in 1..(i - 1) : log[k] = "unregisterEqualizer"
          /\ log[i] = "unregisterEqualizer" => platTarget # "bridge"
    /\ (result = "instance" /\ isShutdown) => log = CreateCalls \o TeardownCalls

\* an Active bridge has been shut down
C5_Witness ==
    /\ result = "instance"
    /\ isShutdown
    /\ pc = "idle"
    /\ Logged("EqualizerCapabilityAgent::shutdown") # {}

\* C6: once a shutdown() has completed, no later step (a further shutdown()
\* included) calls the platform interface, the Manager or the capability agent
\* for teardown again, and the collaborators and the bridge's references stay
\* as the first shutdown left them.
C6_ShutdownIdempotent ==
    [][isShutdown =>
          /\ isShutdown'
          /\ log' = log
          /\ platTarget' = platTarget
          /\ mgrRegistered' = mgrRegistered
          /\ mgrHolders' = mgrHolders
          /\ memberVars' = memberVars]_vars

\* a second shutdown() of the instance has returned
C6_Witness ==
    /\ result = "instance"
    /\ isShutdown
    /\ shutdownCalls = 2
    /\ pc = "idle"

\* C7: when the capability agent cannot be created (the Manager was created
\* before), create() returns no instance, and when it returns the bridge holds
\* no Manager reference and nobody else does: the Manager is gone.
C7_RollbackAfterAgentFailure ==
    (platformArg = "valid" /\ failStep = "agent") =>
        /\ result # "instance"
        /\ pc = "returned" =>
              /\ result = "null"
              /\ m_equalizerController = "null"
              /\ mgrHolders = {}
              /\ ~mgrRegistered

\* create() returned after the Manager was created and the agent was not
C7_Witness ==
    /\ failStep = "agent"
    /\ pc = "returned"
    /\ constructed
    /\ Logged("EqualizerController::create") # {}
    /\ Logged("EqualizerCapabilityAgent::create") # {}

\* C8: create() returns an instance only if the platform interface was non-null
\* and every step of initialize() succeeded; after any failure it returns null
\* and the bridge that was built has been shut down.
C8_NoHalfInitializedBridge ==
    /\ result = "instance" =>
          /\ platformArg = "valid"
          /\ failStep = "none"
          /\ Len(log) >= Len(CreateCalls)
          /\ SubSeq(log, 1, Len(CreateCalls)) = CreateCalls
          /\ m_configuration = "live"
          /\ m_equalizerCapabilityAgent = "live"
          /\ ~isShutdown /\ pc = "idle" =>
                /\ m_equalizerController = "live"
                /\ mgrRegistered
                /\ platTarget = "bridge"
    /\ (Returned /\ (platformArg = "null" \/ failStep # "none")) => result = "null"
    /\ (result = "null" /\ constructed) =>
          /\ isShutdown
          /\ platTarget = "null"
          /\ m_equalizerController = "null"
          /\ ~mgrRegistered

\* create() returned null after initialize() failed, and the bridge was shut down
C8_Witness ==
    /\ result = "null"
    /\ constructed
    /\ failStep = "controller"
    /\ isShutdown

\* C9: create() with a null platform interface returns null without constructing
\* a bridge: no configuration, Manager or capability agent is created and the
\* capability registrar is not invoked.
C9_NullPlatformInterface ==
    platformArg = "null" =>
        /\ ~constructed
        /\ log = <<>>
        /\ mgrHolders = {}
        /\ m_equalizerController = "null"
        /\ m_equalizerCapabilityAgent = "null"
        /\ result # "instance"
        /\ pc # "create" => (pc = "returned" /\ result = "null")

\* create() returned for a null platform interface
C9_Witness ==
    /\ platformArg = "null"
    /\ pc = "returned"
    /\ result = "null"

\* C10: setEqualizerBandLevels calls the platform's setBandLevels exactly once,
\* with every pushed band and its level numerically unchanged, and calls the
\* Manager not at all.
C10_RemotePushUnclamped ==
    out.op = "setEqualizerBandLevels" =>
        /\ MadeOneCall("EqualizerPlatformInterface", "setBandLevels")
        /\ LET v == out.calls[1].arg
           IN  /\ Len(v) = Cardinality(DOMAIN out.input)
               /\ \A k \in DOMAIN out.input :
                     \E i \in DOMAIN v : v[i] = <<PlatformBandOf(k), out.input[k]>>

\* a level outside the range was pushed and reached the platform as it came
C10_Witness ==
    /\ out.op = "setEqualizerBandLevels"
    /\ \E k \in DOMAIN out.input :
          /\ ~InRange(out.input[k])
          /\ \E i \in DOMAIN out.calls[1].arg :
                out.calls[1].arg[i] = <<PlatformBandOf(k), out.input[k]>>

\* the levels truncateBandLevel is examined on: every level of the domain between
\* two callbacks (the configured range does not change while a handler runs), and
\* the levels a truncating handler was given once it has run
TruncatedLevels ==
    IF NoHandlerRunning THEN Levels
    ELSE IF out.op \in {"onLocalSetBandLevels", "loadState"}
         THEN {out.input[i][2] : i \in DOMAIN out.input}
         ELSE {}

\* C11: truncateBandLevel is the clamp into [minLevel, maxLevel]: for every band
\* and level its result lies in the range, is the level itself when the level is
\* in the range and the nearer bound otherwise, and truncating the result again
\* changes nothing.
C11_TruncateIsClamp ==
    \A b \in Bands, level \in TruncatedLevels :
        \A once \in {truncateBandLevel(<<b, level>>)} :
            /\ InRange(once)
            /\ InRange(level) => once = level
            /\ level < cfgMin => once = cfgMin
            /\ level > cfgMax => once = cfgMax
            /\ truncateBandLevel(<<b, once>>) = once

\* a handler truncated a level below the range to minLevel and left a level in
\* the range alone
C11_Witness ==
    /\ out.op = "loadState"
    /\ Len(out.input) = 2
    /\ out.input[1][1] # out.input[2][1]
    /\ out.input[1][2] < cfgMin
    /\ InRange(out.input[2][2])
    /\ out.result.bandLevels[AvsBandOf[out.input[1][1]]] = cfgMin
    /\ out.result.bandLevels[AvsBandOf[out.input[2][1]]] = out.input[2][2]

\* the calls of initialize(), in order
InitializeCalls == SubSeq(CreateCalls, 1, 5)

IsInitializeCall(call) ==
    call \in {"SDKConfigEqualizerConfiguration::create", "EqualizerController::create",
              "EqualizerCapabilityAgent::create", "withCapability", "registerEqualizer"}

\* the calls of initialize() made so far
InitializeLog == SelectSeq(log, IsInitializeCall)

\* how many calls initialize() makes before it gives up: the failing one is the last
CallsUntilFailure ==
    CASE failStep \in {"registrar", "delegate"} -> 0
      [] failStep = "configuration" -> 1
      [] failStep = "controller" -> 2
      [] failStep = "agent" -> 3
      [] failStep = "none" -> 5

\* C12: initialize() makes its calls in the order configuration, Manager,
\* capability agent, registrar, registerEqualizer; after the step that fails no
\* later call is made, the bridge is shut down and create() reports failure.
C12_InitializationOrder ==
    /\ \A i \in DOMAIN log :
          IsInitializeCall(log[i]) =>
              (i <= CallsUntilFailure /\ log[i] = InitializeCalls[i])
    /\ failStep # "none" => result # "instance"
    /\ (Returned /\ constructed) =>
          /\ \A i \in 1..CallsUntilFailure :
                i <= Len(log) /\ log[i] = InitializeCalls[i]
          /\ failStep # "none" => (isShutdown /\ result = "null")

\* the Manager could not be created: create() returned null after two calls
C12_Witness ==
    /\ failStep = "controller"
    /\ pc = "returned"
    /\ result = "null"
    /\ isShutdown
    /\ InitializeLog = SubSeq(InitializeCalls, 1, 2)

\* the handlers of the local events
LocalHandlers == {"onLocalSetBandLevels", "onLocalAdjustBandLevels", "onLocalResetBands"}

\* C13: in every interleaving of shutdown() with the local events, a handler
\* that calls the Manager finds m_equalizerController still live: no handler
\* uses the reference after doShutdown() has reset it.
C13_NoUseAfterRelease ==
    out.op \in LocalHandlers => ~out.fault

\* C14: every invocation of onLocalSetBandLevels calls the Manager's
\* setBandLevels exactly once and the platform interface not at all.
C14_LocalSetCallsManagerOnly ==
    out.op = "onLocalSetBandLevels" =>
        /\ Len(out.calls) = 1
        /\ \A i \in DOMAIN out.calls :
              /\ out.calls[i].target = "EqualizerController"
              /\ out.calls[i].method = "setBandLevels"
              /\ out.calls[i].target # "EqualizerPlatformInterface"

\* everything but the record of the handler that ran
allButOut == << configVars, pc, result, constructed, memberVars, isShutdown, shutdownCalls,
                platTarget, mgrHolders, mgrRegistered, log, pending, crashed >>

\* what loadState must return for the levels the platform reports
ExpectedLoadedLevels(bandLevels) ==
    [k \in {AvsBandOf[b] : b \in InputBands(bandLevels)} |->
        Clamped(LastLevel(bandLevels, PlatformBandOf(k)))]

\* C15: saveState and clear change nothing of the bridge and call no
\* collaborator, and whatever was saved before, loadState returns the levels
\* the platform reports, clamped into the configured range.
C15_PersistenceBypassed ==
    [][/\ (out.op = "none" /\ out'.op \in {"saveState", "clear"}) =>
             /\ out'.calls = <<>>
             /\ UNCHANGED allButOut
       /\ (out.op = "none" /\ out'.op = "loadState") =>
             /\ out'.result.bandLevels = ExpectedLoadedLevels(out'.input)
             /\ Len(out'.calls) = 1
             /\ out'.calls[1].method = "getBandLevels"
             /\ UNCHANGED allButOut]_vars

\* a state with a level outside the range was handed to saveState
C15_Witness ==
    /\ out.op = "saveState"
    /\ out.calls = <<>>
    /\ \E k \in DOMAIN out.input : ~InRange(out.input[k])

\* how often a call was made
Times(call) == Cardinality(Logged(call))

\* C16: over the life of a bridge the capability agent is created at most once,
\* registered with the capability registrar at most once and shut down at most
\* once; when it was created and shutdown() has run, it was shut down exactly
\* once, and an agent that was never created is neither registered nor shut down.
C16_AgentOnce ==
    /\ \A i, j \in DOMAIN log :
          (/\ log[i] = log[j]
           /\ log[i] \in {"EqualizerCapabilityAgent::create", "withCapability",
                          "EqualizerCapabilityAgent::shutdown"}) => i = j
    /\ (m_equalizerCapabilityAgent = "live" /\ isShutdown) =>
          \E i \in DOMAIN log : log[i] = "EqualizerCapabilityAgent::shutdown"
    /\ m_equalizerCapabilityAgent = "null" =>
          \A i \in DOMAIN log :
              log[i] \notin {"withCapability", "EqualizerCapabilityAgent::shutdown"}

\* the owner called shutdown() twice on a bridge whose agent was created
C16_Witness ==
    /\ m_equalizerCapabilityAgent = "live"
    /\ shutdownCalls = MaxShutdownCalls
    /\ pc = "idle"
    /\ Times("EqualizerCapabilityAgent::create") = 1
    /\ Times("withCapability") = 1
    /\ Times("EqualizerCapabilityAgent::shutdown") = 1

\* C17: the platform's engine interface is the bridge only while the bridge is
\* fully Active: whenever it is the bridge, initialize() has succeeded, the
\* bridge holds a live Manager reference and is registered with the Manager;
\* a failed create() never sets it.
C17_TargetOnlyWhileActive ==
    /\ platTarget = "bridge" =>
          /\ result = "instance"
          /\ InitializeLog = InitializeCalls
          /\ m_equalizerController = "live"
          /\ "bridge" \in mgrHolders
          /\ mgrRegistered
    /\ (platformArg = "null" \/ failStep # "none") =>
          (platTarget = "null" /\ Times("setEngineInterface(this)") = 0)

\* shutdown() of an Active bridge was called and has not yet cleared the engine interface
C17_Witness ==
    /\ platTarget = "bridge"
    /\ pc = "doShutdown_platform"
    /\ m_equalizerController = "live"
    /\ mgrRegistered

\* C18 as claimed: unregisterEqualizer is called for the bridge only after
\* registerEqualizer was called for it, so the unregister calls never outnumber
\* the register calls.
C18_RegistrationBalanced ==
    /\ Times("unregisterEqualizer") <= Times("registerEqualizer")
    /\ \A i \in Logged("unregisterEqualizer") :
          \E j \in Logged("registerEqualizer") : j < i

\* C18 as amended: unregisterEqualizer is called for the bridge at most once and
\* only after the Manager was created; it follows registerEqualizer whenever
\* that was called, and it is called without a registerEqualizer before it
\* exactly in the rollback of a create() whose capability agent could not be
\* created.
C18_UnregisterOnlyWithManager ==
    \A unregistered \in {Logged("unregisterEqualizer")},
       registered \in {Logged("registerEqualizer")} :
        /\ Cardinality(unregistered) <= 1
        /\ Cardinality(registered) <= 1
        /\ \A i \in unregistered :
              /\ failStep \in {"agent", "none"}
              /\ \E j \in 1..(i - 1) : log[j] = "EqualizerController::create"
              /\ \A j \in registered : j < i
        /\ (unregistered # {} /\ registered = {}) => failStep = "agent"
        /\ (platformArg = "valid" /\ failStep = "agent" /\ pc = "returned") =>
              (unregistered # {} /\ registered = {})

\* the rollback unregistered a bridge that was never registered
C18_Witness ==
    /\ failStep = "agent"
    /\ pc = "returned"
    /\ Times("unregisterEqualizer") = 1
    /\ Times("registerEqualizer") = 0

====
